---- MODULE Spec2Model ----
(***************************************************************************)
(* Model of the Student-AI backend:                                        *)
(*   - backend/ingest.py : main (PDF scan, chunking, batch ingestion with  *)
(*                         retry/backoff into the Chroma index)            *)
(*   - backend/backend.py: encode_image, retrieve_context_with_sources,    *)
(*                         ask_gemini_multimodal                           *)
(*   - backend/api.py    : chat_endpoint                                   *)
(* Strings the code inspects (file names, queries, flags) are sequences    *)
(* of one-character strings, so that lower/strip/split/startswith are      *)
(* computed the way Python computes them.                                  *)
(***************************************************************************)
EXTENDS Integers, Sequences, FiniteSets, TLC

VARIABLES
    \* ---- ingest.py ----
    pc,         \* position of main: "start", "batches", "done"
    dataDir,    \* files os.walk finds under DATA_PATH, in walk order
    dbDir,      \* the directory DB_PATH: [exists, entries]
    dbDir0,     \* DB_PATH as it was before the run started
    documents,  \* pages loaded by PyPDFLoader
    chunks,     \* output of split_documents
    db,         \* the local variable db: "None" or "Chroma"
    i,          \* outer loop index (0-based offset into chunks)
    attempt,    \* inner loop index, 0..4
    log,        \* one record per insertion attempt made so far
    clock,      \* seconds spent in time.sleep
    \* ---- api.py / backend.py ----
    vectorstore, \* entries of the Chroma store loaded at server startup
    disk,        \* temp image files currently on disk
    req,         \* the form of the last /chat request
    call,        \* arguments last passed to ask_gemini_multimodal
    trace,       \* what the last ask_gemini_multimodal call did
    resp         \* what the last request returned to its caller

ingestVars == <<pc, dataDir, dbDir, dbDir0, documents, chunks, db, i, attempt, log, clock>>
chatVars == <<vectorstore, disk, req, call, trace, resp>>
vars == <<pc, dataDir, dbDir, dbDir0, documents, chunks, db, i, attempt, log, clock,
          vectorstore, disk, req, call, trace, resp>>

(***************************************************************************)
(* Characters and Python string methods                                    *)
(***************************************************************************)
UpperOf ==
    [c \in {"a","d","e","f","h","i","l","n","o","p","s","u","y","t","r","g","m","k","w"} |->
        CASE c = "a" -> "A" [] c = "d" -> "D" [] c = "e" -> "E" [] c = "f" -> "F"
          [] c = "h" -> "H" [] c = "i" -> "I" [] c = "l" -> "L" [] c = "n" -> "N"
          [] c = "o" -> "O" [] c = "p" -> "P" [] c = "s" -> "S" [] c = "u" -> "U"
          [] c = "y" -> "Y" [] c = "t" -> "T" [] c = "r" -> "R" [] c = "g" -> "G"
          [] c = "m" -> "M" [] c = "k" -> "K" [] c = "w" -> "W"]

LowerChar(c) ==
    IF \E l \in DOMAIN UpperOf : UpperOf[l] = c
    THEN CHOOSE l \in DOMAIN UpperOf : UpperOf[l] = c
    ELSE c

\* str.lower()
Lower(s) == [k \in 1..Len(s) |-> LowerChar(s[k])]

\* str.startswith / str.endswith
StartsWith(s, p) == Len(p) <= Len(s) /\ SubSeq(s, 1, Len(p)) = p
EndsWith(s, p) == Len(p) <= Len(s) /\ SubSeq(s, Len(s) - Len(p) + 1, Len(s)) = p

IsSpace(c) == c \in {" ", "\t", "\n"}

RECURSIVE LStrip(_)
LStrip(s) == IF s # <<>> /\ IsSpace(Head(s)) THEN LStrip(Tail(s)) ELSE s

RECURSIVE RStrip(_)
RStrip(s) == IF s # <<>> /\ IsSpace(s[Len(s)]) THEN RStrip(SubSeq(s, 1, Len(s) - 1)) ELSE s

\* str.strip()
Strip(s) == RStrip(LStrip(s))

\* str.split() with no separator: maximal runs of non-whitespace
RECURSIVE SplitFrom(_, _, _)
SplitFrom(s, cur, acc) ==
    IF s = <<>> THEN (IF cur = <<>> THEN acc ELSE Append(acc, cur))
    ELSE IF IsSpace(Head(s))
         THEN SplitFrom(Tail(s), <<>>, IF cur = <<>> THEN acc ELSE Append(acc, cur))
         ELSE SplitFrom(Tail(s), Append(cur, Head(s)), acc)

Split(s) == SplitFrom(s, <<>>, <<>>)

(***************************************************************************)
(* ingest.py                                                               *)
(***************************************************************************)
batch_size == 95
MaxAttempts == 5
BackoffUnit == 10

\* bounds of the modelled document directory
BigDocPages == 19
ChunksPerPage == 5

NamePdf == <<"a", ".", "p", "d", "f">>
NameUpper == <<"B", ".", "P", "D", "F">>
NameBig == <<"c", ".", "p", "d", "f">>
NameBad == <<"x", ".", "p", "d", "f">>
NameTxt == <<"n", ".", "t", "x", "t">>
NameOld == <<"o", ".", "p", "d", "f">>
DotPdf == <<".", "p", "d", "f">>

\* The files that may lie under DATA_PATH, in os.walk order.  pages[p] is the
\* number of chunks the splitter cuts page p into; loads = FALSE is a file
\* on which PyPDFLoader raises.
Catalog ==
    << [name |-> NamePdf,   loads |-> TRUE,  pages |-> [p \in 1..BigDocPages |-> ChunksPerPage]],
       [name |-> NameUpper, loads |-> TRUE,  pages |-> <<1>>],
       [name |-> NameBig,   loads |-> TRUE,  pages |-> [p \in 1..(BigDocPages + 1) |-> ChunksPerPage]],
       [name |-> NameBad,   loads |-> FALSE, pages |-> <<1>>],
       [name |-> NameTxt,   loads |-> TRUE,  pages |-> <<1>>] >>

RECURSIVE SelectFiles(_, _)
SelectFiles(k, S) ==
    IF k > Len(Catalog) THEN <<>>
    ELSE (IF k \in S THEN <<Catalog[k]>> ELSE <<>>) \o SelectFiles(k + 1, S)

OldEntry == [source |-> NameOld, page |-> 1, part |-> 1]

\* lines 25-34: the pages one file contributes to documents
LoadFile(f) ==
    IF EndsWith(Lower(f.name), DotPdf) /\ f.loads
    THEN [p \in 1..Len(f.pages) |-> [source |-> f.name, page |-> p, parts |-> f.pages[p]]]
    ELSE <<>>

\* lines 22-34: the scan loop
RECURSIVE ScanDocuments(_)
ScanDocuments(files) ==
    IF files = <<>> THEN <<>>
    ELSE LoadFile(Head(files)) \o ScanDocuments(Tail(files))

\* lines 38-39: split_documents keeps document order, page order, chunk order
RECURSIVE SplitDocuments(_)
SplitDocuments(docs) ==
    IF docs = <<>> THEN <<>>
    ELSE [k \in 1..Head(docs).parts |-> [source |-> Head(docs).source, page |-> Head(docs).page, part |-> k]]
         \o SplitDocuments(Tail(docs))

Min(a, b) == IF a < b THEN a ELSE b

\* variant: the slice runs one chunk into the next batch
Batch_overlapping(cs, k) == SubSeq(cs, k + 1, Min(k + batch_size + 1, Len(cs)))

\* line 53: chunks[i : i + batch_size]
Batch(cs, k) == SubSeq(cs, k + 1, Min(k + batch_size, Len(cs)))

\* variant: the backoff multiplies the 0-based loop index
wait_time_zero_based(a) == a * BackoffUnit

\* line 65
wait_time(a) == (a + 1) * BackoffUnit

IngestInit ==
    /\ pc = "start"
    /\ \E S \in SUBSET (1..Len(Catalog)) : dataDir = SelectFiles(1, S)
    /\ dbDir \in { [exists |-> FALSE, entries |-> <<>>],
                   [exists |-> TRUE,  entries |-> <<>>],
                   [exists |-> TRUE,  entries |-> <<OldEntry>>] }
    /\ dbDir0 = dbDir
    /\ documents = <<>>
    /\ chunks = <<>>
    /\ db = "None"
    /\ i = 0
    /\ attempt = 0
    /\ log = <<>>
    /\ clock = 0
    /\ vectorstore = <<>>
    /\ disk = {}
    /\ req = [kind |-> "none"]
    /\ call = [kind |-> "none"]
    /\ trace = [kind |-> "none"]
    /\ resp = [kind |-> "none"]

\* lines 17-50: clean DB_PATH, scan, split, initialise
CleanAndScan ==
    /\ pc = "start"
    /\ dbDir' = [exists |-> FALSE, entries |-> <<>>]
    /\ documents' = ScanDocuments(dataDir)
    /\ chunks' = SplitDocuments(documents')
    /\ db' = "None"
    /\ i' = 0
    /\ attempt' = 0
    /\ pc' = "batches"
    /\ UNCHANGED <<dataDir, dbDir0, log, clock>>
    /\ UNCHANGED chatVars

LogEntry(outcome, w) == [batch |-> i, attempt |-> attempt + 1, outcome |-> outcome, wait |-> w]

\* the inner loop is left: next batch
NextBatch ==
    /\ i' = i + batch_size
    /\ attempt' = 0

\* lines 58-63: the insertion succeeds
AttemptSuccess ==
    /\ pc = "batches"
    /\ i < Len(chunks)
    /\ dbDir' = [exists |-> TRUE, entries |-> dbDir.entries \o Batch(chunks, i)]
    /\ db' = "Chroma"
    /\ log' = Append(log, LogEntry("ok", 0))
    /\ NextBatch
    /\ UNCHANGED <<pc, dataDir, dbDir0, documents, chunks, clock>>
    /\ UNCHANGED chatVars

\* A failed Chroma.from_documents may already have created the (empty)
\* persist directory; db stays None either way.
FailedInsertDir(created) ==
    IF db = "None" /\ created THEN [exists |-> TRUE, entries |-> dbDir.entries] ELSE dbDir

\* lines 64-67: ResourceExhausted
AttemptRateLimited ==
    /\ pc = "batches"
    /\ i < Len(chunks)
    /\ \E created \in BOOLEAN : dbDir' = FailedInsertDir(created)
    /\ log' = Append(log, LogEntry("rate_limit", wait_time(attempt)))
    /\ clock' = clock + wait_time(attempt)
    /\ IF attempt + 1 < MaxAttempts
       THEN attempt' = attempt + 1 /\ i' = i
       ELSE NextBatch
    /\ UNCHANGED <<pc, dataDir, dbDir0, documents, chunks, db>>
    /\ UNCHANGED chatVars

\* variant: an unexpected error ends the run
AttemptOtherError_abort ==
    /\ pc = "batches"
    /\ i < Len(chunks)
    /\ \E created \in BOOLEAN : dbDir' = FailedInsertDir(created)
    /\ log' = Append(log, LogEntry("error", 0))
    /\ pc' = "done"
    /\ UNCHANGED <<dataDir, dbDir0, documents, chunks, db, clock, i, attempt>>
    /\ UNCHANGED chatVars

\* lines 68-70: any other exception
AttemptOtherError ==
    /\ pc = "batches"
    /\ i < Len(chunks)
    /\ \E created \in BOOLEAN : dbDir' = FailedInsertDir(created)
    /\ log' = Append(log, LogEntry("error", 0))
    /\ NextBatch
    /\ UNCHANGED <<pc, dataDir, dbDir0, documents, chunks, db, clock>>
    /\ UNCHANGED chatVars

\* line 72: the outer loop is exhausted
Finish ==
    /\ pc = "batches"
    /\ i >= Len(chunks)
    /\ pc' = "done"
    /\ UNCHANGED <<dataDir, dbDir, dbDir0, documents, chunks, db, i, attempt, log, clock>>
    /\ UNCHANGED chatVars

IngestNext ==
    \/ CleanAndScan
    \/ AttemptSuccess
    \/ AttemptRateLimited
    \/ AttemptOtherError
    \/ Finish

IngestSpec == IngestInit /\ [][IngestNext]_vars

(***************************************************************************)
(* backend.py                                                              *)
(***************************************************************************)
TEXT_MODEL_NAME == "llama-3.1-8b-instant"
VISION_MODEL_NAME == "meta-llama/llama-4-scout-17b-16e-instruct"
VISION_APOLOGY == "I'm sorry, my vision capabilities are currently unavailable due to server traffic. I can still answer text questions!"
TIMEOUT_APOLOGY == "Error: The AI engine timed out. Please try again."
LLM_CONTENT == "response.content"

\* line 67: search_kwargs k
RetrieverK == 3

\* line 88
common_greetings ==
    << <<"h", "i">>, <<"h", "e", "l", "l", "o">>, <<"h", "e", "y">>, <<"y", "o">>, <<"t", "h", "a", "n", "k", "s">>, <<"g", "o", "o", "d", " ", "m", "o", "r", "n", "i", "n", "g">> >>

\* An optional value is a sequence of length 0 (None) or 1.
None == <<>>
Some(v) == <<v>>

\* Python truthiness of image_path: None and "" are falsy
Truthy(image_path) == image_path # None /\ image_path[1] # <<>>

\* os.path.exists
Exists(fs, path) == \E f \in fs : f.path = path

FileAt(fs, path) == CHOOSE f \in fs : f.path = path

\* variant: no try/except around the Pillow calls
encode_image_uncaught(image_path, fs) ==
    IF ~Truthy(image_path) \/ ~Exists(fs, image_path[1])
    THEN [exc |-> FALSE, val |-> None]
    ELSE LET img == FileAt(fs, image_path[1]).content IN
         IF img.decodable
         THEN [exc |-> FALSE,
               val |-> Some([format |-> "JPEG", mode |-> "RGB",
                             width |-> Min(img.width, 1600), pixels |-> img.pixels])]
         ELSE [exc |-> TRUE, val |-> None]

\* lines 37-63.  A result is [exc, val]: exc = TRUE is an exception leaving
\* the function, val the returned value (None or the base64 string, which is
\* kept as a record of what was encoded).
encode_image(image_path, fs) ==
    IF ~Truthy(image_path) \/ ~Exists(fs, image_path[1])
    THEN [exc |-> FALSE, val |-> None]
    ELSE LET img == FileAt(fs, image_path[1]).content IN
         IF img.decodable
         THEN [exc |-> FALSE,
               val |-> Some([format |-> "JPEG", mode |-> "RGB",
                             width |-> Min(img.width, 1600), pixels |-> img.pixels])]
         ELSE [exc |-> FALSE, val |-> None]

\* os.path.basename of a path given as its sequence of components
Basename(path) == IF path = <<>> THEN <<>> ELSE path[Len(path)]

Unknown == <<"U", "n", "k", "n", "o", "w", "n">>

\* d.metadata.get('source', 'Unknown'), then basename
SourceOf(d) == IF d.source = None THEN Unknown ELSE Basename(d.source[1])

\* line 68: the k most similar entries, in the order the store ranks them
TopK(vs, ranking) == [j \in 1..Min(RetrieverK, Len(vs)) |-> vs[ranking[j]]]

\* variant: no try/except around the retriever
retrieve_uncaught(query, vs, backend) ==
    IF backend.fail
    THEN [exc |-> TRUE, text |-> <<>>, sources |-> {}]
    ELSE LET docs == TopK(vs, backend.ranking) IN
         [exc |-> FALSE,
          text |-> [j \in DOMAIN docs |-> [from_document |-> SourceOf(docs[j]), page_content |-> docs[j].text]],
          sources |-> {SourceOf(docs[j]) : j \in DOMAIN docs}]

\* lines 65-74.  backend = [fail, ranking] is what the vector store does.
retrieve_context_with_sources(query, vs, backend) ==
    IF backend.fail
    THEN [exc |-> FALSE, text |-> <<>>, sources |-> {}]
    ELSE LET docs == TopK(vs, backend.ranking) IN
         [exc |-> FALSE,
          text |-> [j \in DOMAIN docs |-> [from_document |-> SourceOf(docs[j]), page_content |-> docs[j].text]],
          sources |-> {SourceOf(docs[j]) : j \in DOMAIN docs}]

\* variant: the token limit is off by one
IsGreeting_three(query) ==
    LET query_lower == Lower(Strip(query)) IN
    /\ \E g \in DOMAIN common_greetings : StartsWith(query_lower, common_greetings[g])
    /\ Len(Split(query)) < 3

\* lines 87-89
IsGreeting(query) ==
    LET query_lower == Lower(Strip(query)) IN
    /\ \E g \in DOMAIN common_greetings : StartsWith(query_lower, common_greetings[g])
    /\ Len(Split(query)) < 4

\* variant: used_mode is never set to "rag"
ModeLabel_never_rag(use_rag) == "general"

\* lines 95, 99
ModeLabel(use_rag) == IF use_rag THEN "rag" ELSE "general"

\* variant: the except branch returns the sources already retrieved
ErrorReturn_keeps_sources(image_path, sources) ==
    IF Truthy(image_path)
    THEN [answer |-> VISION_APOLOGY, sources |-> sources, mode |-> "general"]
    ELSE [answer |-> TIMEOUT_APOLOGY, sources |-> sources, mode |-> "error"]

\* lines 143-147: the except branch
ErrorReturn(image_path, sources) ==
    IF Truthy(image_path)
    THEN [answer |-> VISION_APOLOGY, sources |-> {}, mode |-> "general"]
    ELSE [answer |-> TIMEOUT_APOLOGY, sources |-> {}, mode |-> "error"]

Raised == [exc |-> TRUE]

\* lines 77-147.  env = [backend, llm] are the outcomes of the two remote
\* calls.  The result carries the returned triple and, for the properties,
\* what the call did on the way.
ask_gemini_multimodal(query, chat_history, image_path, vs, use_rag, fs, env) ==
    LET model == IF Truthy(image_path) THEN VISION_MODEL_NAME ELSE TEXT_MODEL_NAME
        rag == IF IsGreeting(query) THEN FALSE ELSE use_rag
        r == IF rag THEN retrieve_context_with_sources(query, vs, env.backend)
             ELSE [exc |-> FALSE, text |-> <<>>, sources |-> {}]
    IN
    IF r.exc THEN Raised
    ELSE
    LET system_text == IF rag
                       THEN [persona |-> "academic", history |-> chat_history, context |-> Some(r.text)]
                       ELSE [persona |-> "general", history |-> chat_history, context |-> None]
        e == IF Truthy(image_path) THEN encode_image(image_path, fs) ELSE [exc |-> FALSE, val |-> None]
    IN
    IF e.exc THEN Raised
    ELSE
    LET content_payload ==
            (IF e.val # None THEN <<[type |-> "image_url", image_url |-> e.val[1]]>> ELSE <<>>)
            \o <<[type |-> "text", text |-> query]>>
        did == [model |-> model, retrieved |-> rag,
                retrieval_failed |-> rag /\ env.backend.fail,
                context |-> r.text, found |-> r.sources, b64 |-> e.val,
                system |-> system_text, payload |-> content_payload, llm |-> env.llm]
        ret == IF env.llm = "ok"
               THEN [answer |-> LLM_CONTENT, sources |-> r.sources, mode |-> ModeLabel(rag)]
               ELSE ErrorReturn(image_path, r.sources)
    IN [exc |-> FALSE, ret |-> ret, did |-> did]

(***************************************************************************)
(* api.py                                                                  *)
(***************************************************************************)
\* variant: the flag is compared without lower()
RagEnabled_case_sensitive(use_rag) ==
    use_rag \notin { <<"f", "a", "l", "s", "e">>, <<"0">>, <<"n", "u", "l", "l">>, <<"n", "o", "n", "e">>, <<>> }

\* line 93
RagEnabled(use_rag) ==
    Lower(use_rag) \notin { <<"f", "a", "l", "s", "e">>, <<"0">>, <<"n", "u", "l", "l">>, <<"n", "o", "n", "e">>, <<>> }

TempPath == <<"temp_uuid.jpg">>

\* bound on the number of tokens of the generated queries
MaxTokens == 4

Words == { <<"h", "i">>, <<"g", "o", "o", "d">>, <<"m", "o", "r", "n", "i", "n", "g">> }

RECURSIVE Join(_)
Join(ws) == IF ws = <<>> THEN <<>>
            ELSE IF Len(ws) = 1 THEN ws[1]
            ELSE ws[1] \o <<" ">> \o Join(Tail(ws))

WordSeqs(n) == UNION {[1..m -> Words] : m \in 1..n}

Queries ==
    {Join(ws) : ws \in WordSeqs(MaxTokens)} \cup
    { <<>>,
      <<"H", "i">>,
      <<" ", "h", "i", " ">>,
      <<"H", "E", "L", "L", "O", " ", "t", "h", "e", "r", "e">>,
      <<"h", "e", "y">>,
      <<"y", "o">>,
      <<"T", "h", "a", "n", "k", "s", " ", "a", " ", "l", "o", "t">>,
      <<"t", "h", "a", "n", "k", "s", " ", "a", " ", "l", "o", "t", " ", "p", "a", "l">>,
      <<"h", "i", "s", "t", "o", "r", "y", " ", "o", "f", " ", "r", "o", "m", "e">>,
      <<"g", "o", "o", "d", " ", " ", "m", "o", "r", "n", "i", "n", "g">>,
      <<"s", "a", "y", " ", "h", "i">>,
      <<"w", "h", "a", "t", " ", "i", "s", " ", "o", "s", "m", "o", "s", "i", "s">>,
      <<"h", "i", "\t", "g", "o", "o", "d", "\n", "m", "o", "r", "n", "i", "n", "g">>,
      <<"y", "o", " ", "y", "o", " ", "y", "o", " ", "y", "o">> }

Flags ==
    { <<"f", "a", "l", "s", "e">>,
      <<"F", "a", "l", "s", "e">>,
      <<"F", "A", "L", "S", "E">>,
      <<"f", "A", "l", "S", "e">>,
      <<"0">>,
      <<"n", "u", "l", "l">>,
      <<"N", "U", "L", "L">>,
      <<"N", "o", "n", "e">>,
      <<"n", "o", "n", "e">>,
      <<>>,
      <<"t", "r", "u", "e">>,
      <<"1">>,
      <<"n", "o">>,
      <<" ", "f", "a", "l", "s", "e">>,
      <<"f", "a", "l", "s", "e", "e">>,
      <<"0", "0">> }

\* image files: what Pillow finds in them
GoodJpeg == [decodable |-> TRUE, mode |-> "RGB", width |-> 800, pixels |-> "photo"]
BigPng == [decodable |-> TRUE, mode |-> "RGBA", width |-> 4000, pixels |-> "diagram"]
Corrupt == [decodable |-> FALSE, mode |-> "", width |-> 0, pixels |-> ""]

Uploads == {None, Some(GoodJpeg), Some(BigPng), Some(Corrupt)}

\* the Chroma store loaded at startup (api.py line 38)
NameX == <<"x", ".", "p", "d", "f">>
NameY == <<"y", ".", "p", "d", "f">>
Store4 ==
    << [source |-> Some(<<NameX>>), text |-> "osmosis"],
       [source |-> Some(<<<<"d", "a", "t", "a">>, NameY>>), text |-> "diffusion"],
       [source |-> Some(<<NameX>>), text |-> "membrane"],
       [source |-> None, text |-> "untagged"] >>

\* similarity rankings the store may answer with
Rankings == { <<1, 2, 3, 4>>, <<3, 1, 4, 2>>, <<4, 3, 2, 1>>, <<1, 3, 2, 4>> }

Backends(vs) ==
    {[fail |-> TRUE, ranking |-> <<>>]} \cup
    (IF vs = <<>> THEN {[fail |-> FALSE, ranking |-> <<>>]}
     ELSE {[fail |-> FALSE, ranking |-> rk] : rk \in Rankings})

Envs(vs) == {[backend |-> b, llm |-> l] : b \in Backends(vs), l \in {"ok", "fail"}}

\* files a direct caller of ask_gemini_multimodal may point at
LocalGood == <<"good.jpg">>
LocalBad == <<"bad.jpg">>
LocalMissing == <<"missing.jpg">>
LocalFiles == { [path |-> LocalGood, content |-> GoodJpeg], [path |-> LocalBad, content |-> Corrupt] }

ChatInit ==
    /\ vectorstore \in {<<>>, Store4}
    /\ disk = LocalFiles
    /\ \/ \E question \in Queries, use_rag \in Flags, file \in Uploads :
            req = [kind |-> "http", question |-> question, history |-> "history",
                   use_rag |-> use_rag, file |-> file]
       \/ \E query \in Queries, use_rag \in BOOLEAN,
             image_path \in {None, Some(<<>>), Some(LocalGood), Some(LocalBad), Some(LocalMissing)} :
            req = [kind |-> "direct", query |-> query, chat_history |-> "history",
                   image_path |-> image_path, use_rag |-> use_rag]
    /\ call = [kind |-> "none"]
    /\ trace = [kind |-> "none"]
    /\ resp = [kind |-> "none"]
    /\ pc = "start"
    /\ dataDir = <<>>
    /\ dbDir = [exists |-> FALSE, entries |-> <<>>]
    /\ dbDir0 = dbDir
    /\ documents = <<>>
    /\ chunks = <<>>
    /\ db = "None"
    /\ i = 0
    /\ attempt = 0
    /\ log = <<>>
    /\ clock = 0

\* api.py lines 81-101: one /chat request from arrival to response
chat_endpoint ==
    /\ req.kind = "http"
    /\ resp.kind = "none"
    /\ \E env \in Envs(vectorstore) :
        LET image_path == IF req.file # None THEN Some(TempPath) ELSE None
            fs == IF req.file # None
                  THEN disk \cup {[path |-> TempPath, content |-> req.file[1]]}
                  ELSE disk
            rag_enabled == RagEnabled(req.use_rag)
            out == ask_gemini_multimodal(req.question, req.history, image_path, vectorstore,
                                         rag_enabled, fs, env)
        IN
        /\ call' = [kind |-> "call", query |-> req.question, chat_history |-> req.history,
                    image_path |-> image_path, use_rag |-> rag_enabled]
        /\ IF out.exc
           THEN /\ trace' = [kind |-> "raised"]
                /\ resp' = [kind |-> "raise"]
                /\ disk' = fs
           ELSE /\ trace' = [kind |-> "did"] @@ out.did
                /\ resp' = [kind |-> "return", answer |-> out.ret.answer,
                            sources |-> out.ret.sources, mode |-> out.ret.mode]
                /\ disk' = {f \in fs : image_path = None \/ f.path # image_path[1]}
    /\ UNCHANGED <<vectorstore, req>>
    /\ UNCHANGED ingestVars

\* backend.py lines 77-147 called by another caller than the endpoint
ask_direct ==
    /\ req.kind = "direct"
    /\ resp.kind = "none"
    /\ \E env \in Envs(vectorstore) :
        LET out == ask_gemini_multimodal(req.query, req.chat_history, req.image_path, vectorstore,
                                         req.use_rag, disk, env)
        IN
        /\ call' = [kind |-> "call", query |-> req.query, chat_history |-> req.chat_history,
                    image_path |-> req.image_path, use_rag |-> req.use_rag]
        /\ IF out.exc
           THEN /\ trace' = [kind |-> "raised"]
                /\ resp' = [kind |-> "raise"]
           ELSE /\ trace' = [kind |-> "did"] @@ out.did
                /\ resp' = [kind |-> "return", answer |-> out.ret.answer,
                            sources |-> out.ret.sources, mode |-> out.ret.mode]
    /\ UNCHANGED <<vectorstore, req, disk>>
    /\ UNCHANGED ingestVars

ChatNext ==
    \/ chat_endpoint
    \/ ask_direct

ChatSpec == ChatInit /\ [][ChatNext]_vars


(***************************************************************************)
(* Properties of the ingestion run                                         *)
(***************************************************************************)
Range(s) == {s[k] : k \in DOMAIN s}

\* offsets at which a batch of 95 chunks starts
BatchStarts == {k \in 0..(Len(chunks) - 1) : k % 95 = 0}

ChunksOf(b) == {chunks[k] : k \in (b + 1)..Min(b + 95, Len(chunks))}

Attempts(b, o) == {j \in DOMAIN log : log[j].batch = b /\ log[j].outcome = o}

C2_InsertedOnceOrExhausted ==
    pc = "done" =>
        /\ Cardinality(Range(dbDir.entries)) = Len(dbDir.entries)
        /\ \A b \in BatchStarts :
             \/ Cardinality(Attempts(b, "ok")) = 1 /\ ChunksOf(b) \subseteq Range(dbDir.entries)
             \/ Cardinality(Attempts(b, "rate_limit")) = 5

\* C2 amended: at the end of the run every batch is in exactly one of three
\* cases: inserted once (all its chunks are in the index), given up after 5
\* rate-limited attempts, or abandoned after one other error (in both cases
\* none of its chunks is in the index); no index entry occurs twice.
C2_InsertedOnceExhaustedOrAbandoned ==
    pc = "done" =>
        /\ Cardinality(Range(dbDir.entries)) = Len(dbDir.entries)
        /\ Range(dbDir.entries) \subseteq Range(chunks)
        /\ \A b \in BatchStarts :
             \/ /\ Cardinality(Attempts(b, "ok")) = 1
                /\ Attempts(b, "error") = {}
                /\ Cardinality(Attempts(b, "rate_limit")) < 5
                /\ ChunksOf(b) \subseteq Range(dbDir.entries)
             \/ /\ Attempts(b, "ok") = {}
                /\ Attempts(b, "error") = {}
                /\ Cardinality(Attempts(b, "rate_limit")) = 5
                /\ ChunksOf(b) \cap Range(dbDir.entries) = {}
             \/ /\ Attempts(b, "ok") = {}
                /\ Cardinality(Attempts(b, "error")) = 1
                /\ Cardinality(Attempts(b, "rate_limit")) < 5
                /\ ChunksOf(b) \cap Range(dbDir.entries) = {}

C2_Witness ==
    /\ pc = "done"
    /\ Cardinality(BatchStarts) = 3
    /\ Attempts(0, "ok") # {}
    /\ Attempts(95, "error") # {}
    /\ Cardinality(Attempts(190, "rate_limit")) = 5

\* C3: a batch whose insertion fails with a non-rate-limit error is not
\* attempted again and the next attempt is the first attempt of the next
\* batch; the run ends only after every batch was attempted; the chunks of
\* every batch inserted so far are in the index, which then exists, also
\* when the first batch was the one that failed.
C3_AbandonBatchAndContinue ==
    /\ \A j \in DOMAIN log :
         /\ log[j].outcome = "error" =>
              /\ \A m \in DOMAIN log : m # j => log[m].batch # log[j].batch \/ m < j
              /\ IF j < Len(log)
                 THEN log[j + 1].batch = log[j].batch + 95 /\ log[j + 1].attempt = 1
                 ELSE i = log[j].batch + 95 /\ attempt = 0
         /\ log[j].outcome = "ok" =>
              /\ dbDir.exists
              /\ ChunksOf(log[j].batch) \subseteq Range(dbDir.entries)
    /\ pc = "done" => \A b \in BatchStarts : \E j \in DOMAIN log : log[j].batch = b

C3_Witness ==
    /\ Len(log) >= 2
    /\ log[1].outcome = "error"
    /\ log[1].batch = 0
    /\ log[Len(log)].outcome = "ok"
    /\ dbDir.exists
    /\ ChunksOf(0) \cap Range(dbDir.entries) = {}
    /\ ChunksOf(95) \subseteq Range(dbDir.entries)

\* C4: a run that found no document leaves DB_PATH as it was before the run.
C4_ZeroDocumentsLeaveIndexAlone ==
    (pc = "done" /\ documents = <<>>) => dbDir = dbDir0

(***************************************************************************)
(* Properties of a chat request                                            *)
(***************************************************************************)
GreetingTokens == { <<"h", "i">>, <<"h", "e", "l", "l", "o">>, <<"h", "e", "y">>, <<"y", "o">>, <<"t", "h", "a", "n", "k", "s">>, <<"g", "o", "o", "d", " ", "m", "o", "r", "n", "i", "n", "g">> }

BeginsWith(s, g) == Len(g) <= Len(s) /\ \A k \in 1..Len(g) : s[k] = g[k]

\* number of whitespace-separated tokens
TokenCount(s) ==
    Cardinality({k \in 1..Len(s) : ~IsSpace(s[k]) /\ (k = 1 \/ IsSpace(s[k - 1]))})

GreetingQuery(s) == (\E g \in GreetingTokens : BeginsWith(s, g)) /\ TokenCount(s) < 4

\* C5: a query that begins with a greeting token and has fewer than 4
\* tokens is answered without retrieval, whatever the caller asked for; if
\* the model call succeeds the mode is "general" and the sources are empty.
C5_GreetingForcesRagOff ==
    (resp.kind # "none" /\ GreetingQuery(call.query)) =>
        /\ resp.kind = "return"
        /\ ~trace.retrieved
        /\ trace.system.context = None
        /\ trace.llm = "ok" => (resp.mode = "general" /\ resp.sources = {})

C5_Witness ==
    /\ resp.kind = "return"
    /\ call.use_rag = TRUE
    /\ GreetingQuery(call.query)
    /\ TokenCount(call.query) = 3
    /\ vectorstore # <<>>
    /\ trace.llm = "ok"
    /\ resp.mode = "general"

\* s spells t up to letter case
SameUpToCase(s, t) ==
    /\ Len(s) = Len(t)
    /\ \A k \in 1..Len(t) : s[k] = t[k] \/ (t[k] \in DOMAIN UpperOf /\ s[k] = UpperOf[t[k]])

FalseTokens == { <<"f", "a", "l", "s", "e">>, <<"0">>, <<"n", "u", "l", "l">>, <<"n", "o", "n", "e">>, <<>> }

\* C6: chat_endpoint passes use_rag = False to ask_gemini_multimodal exactly
\* when the form value is "false", "0", "null", "none" or "" in any letter
\* case, and True for every other value.
C6_FlagParsing ==
    (req.kind = "http" /\ call.kind = "call") =>
        (call.use_rag = FALSE <=> \E t \in FalseTokens : SameUpToCase(req.use_rag, t))

C6_Witness ==
    /\ req.kind = "http"
    /\ call.kind = "call"
    /\ req.use_rag = <<"f", "A", "l", "S", "e">>
    /\ call.use_rag = FALSE

HasImage == Truthy(call.image_path)

\* C7 as stated: the mode is "rag" if retrieval was used, "general"
\* otherwise, and "error" whenever the model call failed, image or not.
C7_ModeLabelErrorOnAnyFailure ==
    resp.kind = "return" =>
        /\ trace.llm = "ok" => resp.mode = (IF trace.retrieved THEN "rag" ELSE "general")
        /\ trace.llm = "fail" => resp.mode = "error"

\* C7 amended: the mode is "rag" if retrieval was used and "general"
\* otherwise when the model call succeeds; when it fails the mode is
\* "error" for a request without an image path and "general" for one with.
C7_ModeLabel ==
    resp.kind = "return" =>
        /\ trace.llm = "ok" => resp.mode = (IF trace.retrieved THEN "rag" ELSE "general")
        /\ (trace.llm = "fail" /\ ~HasImage) => resp.mode = "error"
        /\ (trace.llm = "fail" /\ HasImage) => resp.mode = "general"

C7_Witness ==
    /\ resp.kind = "return"
    /\ trace.llm = "ok"
    /\ trace.retrieved
    /\ HasImage
    /\ resp.mode = "rag"

\* C8: a failed model call never raises; the caller gets a fixed apology
\* with no sources, mode "error" without an image and the vision apology
\* with mode "general" with one, also when sources had been retrieved.
C8_ProviderFailureAbsorbed ==
    resp.kind # "none" =>
        /\ resp.kind = "return"
        /\ trace.llm = "fail" =>
             /\ resp.sources = {}
             /\ IF HasImage
                THEN /\ resp.mode = "general"
                     /\ resp.answer = "I'm sorry, my vision capabilities are currently unavailable due to server traffic. I can still answer text questions!"
                ELSE /\ resp.mode = "error"
                     /\ resp.answer = "Error: The AI engine timed out. Please try again."

C8_Witness ==
    /\ resp.kind = "return"
    /\ trace.llm = "fail"
    /\ trace.retrieved
    /\ trace.found # {}
    /\ resp.sources = {}
    /\ ~HasImage

UndecodableImage ==
    \/ req.kind = "http" /\ req.file = Some(Corrupt)
    \/ req.kind = "direct" /\ req.image_path \in {Some(LocalBad), Some(LocalMissing)}

\* C10: with an image that cannot be decoded encode_image returns None, the
\* payload sent to the model is exactly the text part, and nothing is raised.
C10_UnreadableImageTextOnly ==
    (resp.kind # "none" /\ UndecodableImage) =>
        /\ resp.kind = "return"
        /\ trace.b64 = None
        /\ trace.payload = <<[type |-> "text", text |-> call.query]>>

C10_Witness ==
    /\ req.kind = "http"
    /\ req.file = Some(Corrupt)
    /\ resp.kind = "return"
    /\ trace.model = "meta-llama/llama-4-scout-17b-16e-instruct"
    /\ Len(trace.payload) = 1
    /\ trace.llm = "ok"

====
